---------------------------- MODULE Spec2Model ----------------------------
(***************************************************************************)
(* A model of the iconify-skill fetch cache, index builders and search.    *)
(*                                                                         *)
(* Strings of the program (prefixes, icon names, queries, SQL text values) *)
(* are sequences of one-character strings, so that formatting (full_id),   *)
(* joining (alias_str, tokens), tokenising and substring tests are         *)
(* computed as the code computes them.                                     *)
(***************************************************************************)
EXTENDS Integers, Sequences, FiniteSets, TLC

\* ------------------------------------------------------------------ bounds

\* Largest --limit a search is invoked with.
MaxLimit == 2
\* The most negative --limit a search is invoked with is -MaxNegLimit.
MaxNegLimit == 1
\* Most pieces a body handed to sanitize_svg is put together from.
MaxFragments == 3

\* ------------------------------------------------------------ remote data

\* The remote serves one of two documents for a URL, 1 the older, 2 the newer.
Versions == {1, 2}

PA == <<"a">>
PB == <<"b">>
PC == <<"c">>
NHome == <<"h", "o">>
NHomeOutline == <<"h", "o", "-", "x">>
NUser == <<"u">>
NHouse == <<"h", "s">>
NExtra == <<"x">>
NBad == <<"b">>

\* The catalog served by COLLECTIONS_URL, as the sequence of its keys in
\* document order (a JSON object keeps its key order in a Python dict).
CatalogOf(v) ==
    IF v = 1 THEN <<PA, PB, PC>> ELSE <<PB, PA>>

NoParent == <<>>

Entry(hasAliases, aliases, parent) ==
    [hasAliases |-> hasAliases, aliases |-> aliases, parent |-> parent]

\* An icon entry that is not a mapping (a string, a number, null).
BadEntry == [bad |-> TRUE]
IsMapping(entry) == "bad" \notin DOMAIN entry

\* A third document the remote may serve for a collection, a faulty one: of
\* a with the entry of icon b not a mapping, between two sound icons; of b
\* without an "icons" field. That of c is as version 1.
BadVersion == 3
HasIconsField(p, v) == ~(v = BadVersion /\ p = PB)

\* One collection document: names in document order, and each name's raw
\* entry (own "aliases" keys in order, optional "parent"). In version 1 of a
\* the chain u -> ho-x -> ho is listed child first; in version 2 of c the
\* icon u names itself as its parent.
CollectionDoc(p, v) ==
    IF v = BadVersion /\ p = PA
    THEN [names |-> <<NHome, NBad, NUser>>,
          icons |-> (NHome :> Entry(TRUE, <<NHouse>>, NoParent)
                     @@ NBad :> BadEntry
                     @@ NUser :> Entry(FALSE, <<>>, NoParent)),
          license |-> "MIT"]
    ELSE IF v = BadVersion /\ p = PB
    THEN [names |-> <<>>, icons |-> <<>>, license |-> "Unknown"]
    ELSE IF p = PA
    THEN IF v = 1
         THEN [names |-> <<NUser, NHome, NHomeOutline>>,
               icons |-> (NUser :> Entry(TRUE, <<NExtra>>, NHomeOutline)
                          @@ NHome :> Entry(TRUE, <<NHouse>>, NoParent)
                          @@ NHomeOutline :> Entry(FALSE, <<>>, NHome)),
               license |-> "MIT"]
         ELSE [names |-> <<NHome>>,
               icons |-> (NHome :> Entry(FALSE, <<>>, NoParent)),
               license |-> "MIT"]
    ELSE IF p = PC
    THEN IF v = 1
         THEN [names |-> <<NUser>>,
               icons |-> (NUser :> Entry(TRUE, <<NHouse>>, NoParent)),
               license |-> "Apache"]
         ELSE [names |-> <<NHouse, NUser>>,
               icons |-> (NHouse :> Entry(FALSE, <<>>, NoParent)
                          @@ NUser :> Entry(TRUE, <<NHouse>>, NUser)),
               license |-> "Apache"]
    ELSE IF v = 1
         THEN [names |-> <<NUser, NHome>>,
               icons |-> (NUser :> Entry(FALSE, <<>>, NoParent)
                          @@ NHome :> Entry(TRUE, <<>>, NoParent)),
               license |-> "Unknown"]
         ELSE [names |-> <<NUser>>,
               icons |-> (NUser :> Entry(FALSE, <<>>, NoParent)),
               license |-> "Unknown"]

AllPrefixes == {PA, PB, PC}

\* --------------------------------------------------------------- the URLs

COLLECTIONS_URL == <<"collections">>
PrefixUrl(p) == <<"json">> \o p
Urls == {COLLECTIONS_URL} \cup {PrefixUrl(p) : p \in AllPrefixes}


\* ----------------------------------------------------------------- state

VARIABLES
    cache,      \* CACHE_DIR/<md5(url)>.json, per URL: absent, corrupt or a document
    userIdx,    \* CACHE_DIR/icons.db, its committed contents
    bundleIdx,  \* BUNDLE_INDEX (data/icons.db shipped with the skill)
    bundleMeta, \* whether BUNDLE_METADATA (data/collections.json) is shipped
    dataIdx,    \* scripts/data as update_bundled_data.py writes it
    meta,       \* CACHE_DIR/index_meta.json
    build,      \* the running build_index.py build: position, open transaction
    walk,       \* a parent walk under way: resolve_aliases, or the build's loop
    last        \* what the step just taken was given and returned

vars == <<cache, userIdx, bundleIdx, bundleMeta, dataIdx, meta, build, walk, last>>

\* ------------------------------------------------------------ Fetcher/Cache

Absent == [st |-> "absent", v |-> 0]
Corrupt == [st |-> "corrupt", v |-> 0]
Valid(v) == [st |-> "valid", v |-> v]
CacheStates == {Absent, Corrupt} \cup {Valid(v) : v \in Versions}

\* What urlopen + json.loads give: a connection error (URLError/HTTPError),
\* a body that is not JSON (JSONDecodeError), or a document.
NetError == {"connError", "malformed"}
NetOk(v) == [ok |-> TRUE, v |-> v, why |-> "ok"]
NetFail(w) == [ok |-> FALSE, v |-> 0, why |-> w]
NetOutcomes == {NetOk(v) : v \in Versions} \cup {NetFail(w) : w \in NetError}

\* The value of one http_get call: out is "ok" or the exception that leaves
\* the function, doc the document returned, cache the file afterwards, net
\* whether urlopen was called.
Ret(out, doc, c, net) == [out |-> out, doc |-> doc, cache |-> c, net |-> net]

\* A mutant: the cache is treated as expired and the document fetched again.
HttpGetRefetch(c, net, diskOk) ==
    IF net.ok
    THEN IF diskOk THEN Ret("ok", net.v, Valid(net.v), TRUE)
         ELSE Ret("OSError", 0, Corrupt, TRUE)
    ELSE IF c.st = "valid" THEN Ret("ok", c.v, c, TRUE)
    ELSE IF c.st = "corrupt" THEN Ret("JSONDecodeError", 0, c, TRUE)
    ELSE Ret("RuntimeError", 0, c, TRUE)

\* http_get(url) on cache file state c, with the network answering net and
\* the cache write succeeding or not.
HttpGet(c, net, diskOk) ==
    IF c.st = "valid"
    THEN Ret("ok", c.v, c, FALSE)                    \* json.load(f) of the cache
    ELSE \* no file, or json.load raised and was passed over
         IF net.ok
         THEN IF diskOk
              THEN Ret("ok", net.v, Valid(net.v), TRUE)
              ELSE \* open(cache_path, "w") truncated the file, the dump failed
                   Ret("OSError", 0, Corrupt, TRUE)
         ELSE \* except (URLError, HTTPError, JSONDecodeError)
              IF c.st # "absent"
              THEN \* cache_path.exists(): json.load(f) raises out of the handler
                   Ret("JSONDecodeError", 0, c, TRUE)
              ELSE Ret("RuntimeError", 0, c, TRUE)

\* ---------------------------------------------------------------- strings

RECURSIVE JoinSp(_)
\* " ".join(keys)
JoinSp(keys) ==
    IF keys = <<>> THEN <<>>
    ELSE IF Len(keys) = 1 THEN keys[1]
    ELSE keys[1] \o <<" ">> \o JoinSp(Tail(keys))

\* f"{prefix}:{name}"
FullId(p, name) == p \o <<":">> \o name

SeqToSet(s) == {s[i] : i \in 1..Len(s)}

\* str.lower(), on ASCII.
UpperLetters == <<"A","B","C","D","E","F","G","H","I","J","K","L","M","N","O","P","Q","R","S","T","U","V","W","X","Y","Z">>
LowerLetters == <<"a","b","c","d","e","f","g","h","i","j","k","l","m","n","o","p","q","r","s","t","u","v","w","x","y","z">>
LowerMap ==
    [ch \in SeqToSet(UpperLetters) |->
        LowerLetters[CHOOSE i \in 1..26 : UpperLetters[i] = ch]]
LowerChar(ch) == IF ch \in DOMAIN LowerMap THEN LowerMap[ch] ELSE ch
Lower(str) == [i \in 1..Len(str) |-> LowerChar(str[i])]

\* ----------------------------------------------------------- Alias Resolver

\* dict.update on the keys of an alias mapping: present keys keep their
\* place, new keys are appended in the order of the argument.
RECURSIVE Update(_, _)
Update(al, more) ==
    IF more = <<>> THEN al
    ELSE Update(IF more[1] \in SeqToSet(al) THEN al ELSE Append(al, more[1]),
                Tail(more))

OwnAliases(table, name) ==
    IF name \in DOMAIN table THEN table[name].aliases ELSE <<>>

ParentOf(table, name) ==
    IF name \in DOMAIN table THEN table[name].parent ELSE NoParent

\* The while loop of the index build (build_index.py 104-108). The loop has
\* no bound of its own: after as many iterations as the table has names it
\* is on a name it has been on before, with nothing left to add, and from
\* there it repeats for ever; hang reports that.
RECURSIVE FlattenWalk(_, _, _, _)
FlattenWalk(table, al, parent, steps) ==
    IF parent = NoParent THEN [aliases |-> al, hang |-> FALSE]
    ELSE IF steps > Cardinality(DOMAIN table) THEN [aliases |-> al, hang |-> TRUE]
    ELSE FlattenWalk(table, Update(al, OwnAliases(table, parent)),
                     ParentOf(table, parent), steps + 1)

\* A mutant: the walk stops at the first parent.
FlattenAliasesOneLevel(table, name) ==
    [aliases |-> Update(table[name].aliases, OwnAliases(table, table[name].parent)),
     hang |-> FALSE]

\* aliases = icon.get("aliases", {}) followed by the walk.
FlattenAliases(table, name) ==
    FlattenWalk(table, table[name].aliases, table[name].parent, 0)

\* The icon tables the walks are run on: three names, each with one alias of
\* its own and any parent, so chains, missing links, self-parents and the
\* cycle A -> B -> C -> A are all among them.
NA == <<"A">>
NB == <<"B">>
NC == <<"C">>
WalkNames == {NA, NB, NC}
WalkTables ==
    { [n \in WalkNames |-> Entry(TRUE, <<Lower(n)>>, par[n])] :
          par \in [WalkNames -> WalkNames \cup {NoParent}] }

\* odd is the parity of the loop iterations done: an iteration is a step of
\* the program also when it leaves current where it was (a self-parent).
NoWalk == [pc |-> "idle", table |-> <<>>, cur |-> NoParent, aliases |-> <<>>,
           odd |-> FALSE, out |-> "none"]

\* resolve_aliases (iconify_cli.py 296-301): current = icons.get(name, {}).
\* cur is the name of current while current has a parent.
ResolveBegin(table, name) ==
    /\ walk.pc = "idle"
    /\ walk' = [NoWalk EXCEPT !.pc = "resolve", !.table = table, !.cur = name]
    /\ UNCHANGED <<cache, userIdx, bundleIdx, bundleMeta, dataIdx, meta, build, last>>

\* One iteration of while "parent" in current (iconify_cli.py 302-304).
ResolveStep ==
    /\ walk.pc = "resolve"
    /\ ParentOf(walk.table, walk.cur) # NoParent
    /\ walk' = [walk EXCEPT !.cur = ParentOf(walk.table, walk.cur),
                            !.odd = ~walk.odd]
    /\ UNCHANGED <<cache, userIdx, bundleIdx, bundleMeta, dataIdx, meta, build, last>>

\* return current (iconify_cli.py 305)
ResolveReturn ==
    /\ walk.pc = "resolve"
    /\ ParentOf(walk.table, walk.cur) = NoParent
    /\ walk' = [walk EXCEPT !.pc = "done", !.out = "entry"]
    /\ UNCHANGED <<cache, userIdx, bundleIdx, bundleMeta, dataIdx, meta, build, last>>

\* build_index.py 102-103: aliases = icon.get("aliases", {}),
\* parent = icon.get("parent"). cur is parent.
FlattenBegin(table, name) ==
    /\ walk.pc = "idle"
    /\ walk' = [NoWalk EXCEPT !.pc = "flatten", !.table = table,
                              !.cur = table[name].parent,
                              !.aliases = table[name].aliases]
    /\ UNCHANGED <<cache, userIdx, bundleIdx, bundleMeta, dataIdx, meta, build, last>>

\* One iteration of while parent (build_index.py 104-108).
FlattenStep ==
    /\ walk.pc = "flatten"
    /\ walk.cur # NoParent
    /\ walk' = [walk EXCEPT
                  !.aliases = Update(walk.aliases, OwnAliases(walk.table, walk.cur)),
                  !.cur = ParentOf(walk.table, walk.cur),
                  !.odd = ~walk.odd]
    /\ UNCHANGED <<cache, userIdx, bundleIdx, bundleMeta, dataIdx, meta, build, last>>

\* The loop is left: alias_str = " ".join(aliases.keys()) (build_index.py 110).
FlattenReturn ==
    /\ walk.pc = "flatten"
    /\ walk.cur = NoParent
    /\ walk' = [walk EXCEPT !.pc = "done", !.out = "aliases"]
    /\ UNCHANGED <<cache, userIdx, bundleIdx, bundleMeta, dataIdx, meta, build, last>>

\* The caller goes on to its next icon.
WalkEnd ==
    /\ walk.pc = "done"
    /\ walk' = NoWalk
    /\ UNCHANGED <<cache, userIdx, bundleIdx, bundleMeta, dataIdx, meta, build, last>>

\* ------------------------------------------------------------ Index Builder

IconRow(p, name, aliasStr, license) ==
    [prefix |-> p, name |-> name, full_id |-> FullId(p, name),
     aliases |-> aliasStr, license |-> license]

FtsRow(p, name, aliasStr) ==
    [prefix |-> p, name |-> name, full_id |-> FullId(p, name),
     tokens |-> name \o <<" ">> \o aliasStr]

EmptyTables == [icons |-> <<>>, fts |-> <<>>]

\* The for loop over icons.items() (build_index.py 99-123) on the tables
\* tbl of the open transaction. aliases.update works on the entry's own
\* mapping when the entry has one, so the table changes as the loop goes.
\* icon.get on an entry that is not a mapping raises AttributeError; the
\* rows inserted until then are in tbl.
RECURSIVE IndexIcons(_, _, _, _, _)
IndexIcons(p, license, table, names, tbl) ==
    IF names = <<>> THEN [tbl |-> tbl, hang |-> FALSE, exc |-> "none"]
    ELSE IF ~IsMapping(table[names[1]])
    THEN [tbl |-> tbl, hang |-> FALSE, exc |-> "AttributeError"]
    ELSE LET name == names[1]
             fl == FlattenAliases(table, name)
             table2 == IF table[name].hasAliases
                       THEN [table EXCEPT ![name].aliases = fl.aliases]
                       ELSE table
             aliasStr == JoinSp(fl.aliases)
             tbl2 == [icons |-> Append(tbl.icons, IconRow(p, name, aliasStr, license)),
                      fts |-> Append(tbl.fts, FtsRow(p, name, aliasStr))]
         IN IF fl.hang THEN [tbl |-> tbl, hang |-> TRUE, exc |-> "none"]
            ELSE IndexIcons(p, license, table2, Tail(names), tbl2)

\* One collection's document indexed into tbl.
IndexCollection(p, v, tbl) ==
    LET doc == CollectionDoc(p, v)
    IN IndexIcons(p, doc.license, doc.icons, doc.names, tbl)

\* The documents the loop over the icons is run on by itself: three names in
\* any order, each without an alias mapping, with an empty one, with an
\* alias of its own or with the alias z the others may have too, and with
\* any parent.
SharedAlias == <<"z">>
AliasChoices(n) ==
    { Entry(FALSE, <<>>, NoParent), Entry(TRUE, <<>>, NoParent),
      Entry(TRUE, <<Lower(n)>>, NoParent), Entry(TRUE, <<SharedAlias>>, NoParent) }
OrderTables ==
    { [n \in WalkNames |-> [al[n] EXCEPT !.parent = par[n]]] :
          al \in [WalkNames -> UNION {AliasChoices(n) : n \in WalkNames}],
          par \in [WalkNames -> WalkNames \cup {NoParent}] }
Orders ==
    { o \in [1..Cardinality(WalkNames) -> WalkNames] :
          \A i, j \in DOMAIN o : i # j => o[i] # o[j] }

\* sorted(collections.keys()) of the keys that pass the prefix filter; an
\* empty or missing filter keeps every key.
PrefixOrder == <<PA, PB, PC>>

\* A mutant: the prefix filter is not applied.
KeepAll(filter, p) == TRUE

Keep(filter, p) == filter = {} \/ p \in filter
SortedKeys(catalog, filter) ==
    SelectSeq(PrefixOrder, LAMBDA p : p \in SeqToSet(catalog) /\ Keep(filter, p))

\* The user index file: whether it exists, whether the CREATE statements
\* have run in it (sqlite3.connect alone makes an empty file), and its rows.
NoIndex == [exists |-> FALSE, schema |-> FALSE, icons |-> <<>>, fts |-> <<>>]
NoMeta == [exists |-> FALSE, by |-> "none", count |-> 0]

\* No build is running. before is the committed index the running build
\* found when it connected and meta0 the metadata it found; done lists the
\* documents (prefix, version) it has indexed without an error.
Idle == [pc |-> "idle", force |-> FALSE, filter |-> {}, txn |-> EmptyTables,
         todo |-> <<>>, errors |-> <<>>, total |-> 0, before |-> NoIndex,
         done |-> <<>>, meta0 |-> NoMeta]

\* Every field an operation may report, at its neutral value.
NoOp == [op |-> "none", out |-> "ok", url |-> <<>>, pre |-> Absent, why |-> "ok",
         diskOk |-> TRUE, doc |-> 0, net |-> FALSE, rc |-> 0, force |-> FALSE,
         skipped |-> FALSE, errors |-> <<>>, total |-> 0, src |-> "none",
         query |-> <<>>, limit |-> 0, pfilter |-> {}, res |-> <<>>,
         arg |-> <<>>, name |-> <<>>, size |-> 0, color |-> "none",
         body |-> <<>>, safe |-> TRUE, svg |-> <<>>, found |-> <<>>,
         fetched |-> <<>>, before |-> NoIndex, meta0 |-> NoMeta,
         indexed |-> <<>>, table |-> <<>>, order |-> <<>>, rows |-> <<>>]

\* The prefix lists the commands are invoked with; PZ names no collection.
PZ == <<"z">>
Filters == {{}, {PA}, {PB, PZ}}

\* The exceptions of http_get that the per-collection handler of
\* build_index.py names (build_index.py 128): URLError, HTTPError, KeyError,
\* json.JSONDecodeError. http_get's own RuntimeError is not among them.
CaughtPerCollection == {"JSONDecodeError"}

BuildReport(rc, exc, url) ==
    [NoOp EXCEPT !.op = "build", !.rc = rc, !.out = exc, !.url = url,
                 !.force = build.force, !.pfilter = build.filter,
                 !.errors = build.errors, !.total = build.total,
                 !.before = build.before, !.meta0 = build.meta0,
                 !.indexed = build.done]

\* A mutant: the DELETE statements are left out.
BuildBeginNoClear(force, filter) ==
    /\ build.pc = "idle"
    /\ IF userIdx.exists /\ ~force
       THEN /\ last' = [NoOp EXCEPT !.op = "build", !.rc = 0, !.force = force,
                                    !.skipped = TRUE, !.pfilter = filter]
            /\ UNCHANGED <<cache, userIdx, bundleIdx, bundleMeta, dataIdx, meta, build>>
       ELSE /\ userIdx' = [userIdx EXCEPT !.exists = TRUE, !.schema = TRUE]
            /\ build' = [Idle EXCEPT !.pc = "cleared", !.force = force,
                            !.filter = filter, !.before = userIdx, !.meta0 = meta,
                            !.txn = [icons |-> userIdx.icons, fts |-> userIdx.fts]]
            /\ last' = [NoOp EXCEPT !.op = "build_begin", !.force = force,
                                    !.pfilter = filter]
            /\ UNCHANGED <<cache, bundleIdx, bundleMeta, dataIdx, meta>>

\* A mutant: the existing index is rebuilt although force is false.
BuildBeginAlways(force, filter) ==
    /\ build.pc = "idle"
    /\ userIdx' = [userIdx EXCEPT !.exists = TRUE, !.schema = TRUE]
    /\ build' = [Idle EXCEPT !.pc = "cleared", !.force = force,
                             !.filter = filter, !.before = userIdx, !.meta0 = meta]
    /\ last' = [NoOp EXCEPT !.op = "build_begin", !.force = force,
                            !.pfilter = filter]
    /\ UNCHANGED <<cache, bundleIdx, bundleMeta, dataIdx, meta>>

\* build_index.py build_index, lines 29-67: the early return, the
\* connection, the CREATE ... IF NOT EXISTS statements (DDL runs outside any
\* transaction in Python's sqlite3, so it is committed at once) and the two
\* DELETE statements, which open the transaction.
BuildBegin(force, filter) ==
    /\ build.pc = "idle"
    /\ IF userIdx.exists /\ ~force
       THEN /\ last' = [NoOp EXCEPT !.op = "build", !.rc = 0, !.force = force,
                                    !.skipped = TRUE, !.pfilter = filter]
            /\ UNCHANGED <<cache, userIdx, bundleIdx, bundleMeta, dataIdx, meta, build>>
       ELSE /\ userIdx' = [userIdx EXCEPT !.exists = TRUE, !.schema = TRUE]
            /\ build' = [Idle EXCEPT !.pc = "cleared", !.force = force,
                                     !.filter = filter, !.before = userIdx, !.meta0 = meta]
            /\ last' = [NoOp EXCEPT !.op = "build_begin", !.force = force,
                                    !.pfilter = filter]
            /\ UNCHANGED <<cache, bundleIdx, bundleMeta, dataIdx, meta>>

\* The build ends in the outer except (build_index.py 161-164):
\* conn.close() without commit, return 1.
BuildFails(exc, url) ==
    /\ build' = Idle
    /\ last' = BuildReport(1, exc, url)

\* build_index.py 69-84: the collection list through http_get, the prefix
\* filter and index_meta.json.
BuildFetchCollections(net, diskOk) ==
    /\ build.pc = "cleared"
    /\ LET r == HttpGet(cache[COLLECTIONS_URL], net, diskOk)
       IN /\ cache' = [cache EXCEPT ![COLLECTIONS_URL] = r.cache]
          /\ IF r.out = "ok"
             THEN LET keys == SortedKeys(CatalogOf(r.doc), build.filter)
                  IN /\ meta' = [exists |-> TRUE, by |-> "build_index",
                                 count |-> Len(keys)]
                     /\ build' = [build EXCEPT !.pc = "indexing", !.todo = keys]
                     /\ last' = [NoOp EXCEPT !.op = "build_step"]
             ELSE /\ BuildFails(r.out, COLLECTIONS_URL)
                  /\ UNCHANGED meta
    /\ UNCHANGED <<userIdx, bundleIdx, bundleMeta, dataIdx>>

\* build_index.py 90-130: one iteration of the loop over the sorted prefixes.
BuildIndexCollection(net, diskOk) ==
    /\ build.pc = "indexing"
    /\ build.todo # <<>>
    /\ LET p == Head(build.todo)
           r == HttpGet(cache[PrefixUrl(p)], net, diskOk)
           ix == IndexCollection(p, r.doc, build.txn)
       IN /\ cache' = [cache EXCEPT ![PrefixUrl(p)] = r.cache]
          /\ IF r.out = "ok" /\ ix.exc # "none"
             THEN BuildFails(ix.exc, PrefixUrl(p))
             ELSE IF r.out = "ok"
             THEN /\ build' = IF ix.hang
                       THEN [build EXCEPT !.pc = "hung"]
                       ELSE [build EXCEPT
                               !.txn = ix.tbl, !.todo = Tail(build.todo),
                               !.total = build.total + Len(ix.tbl.icons)
                                                    - Len(build.txn.icons),
                               !.done = Append(build.done, <<p, r.doc>>)]
                  /\ last' = [NoOp EXCEPT !.op = "build_step"]
             ELSE IF r.out \in CaughtPerCollection
             THEN /\ build' = [build EXCEPT
                                 !.errors = Append(build.errors, <<p, r.out>>),
                                 !.todo = Tail(build.todo)]
                  /\ last' = [NoOp EXCEPT !.op = "build_step"]
             ELSE BuildFails(r.out, PrefixUrl(p))
    /\ UNCHANGED <<userIdx, bundleIdx, bundleMeta, dataIdx, meta>>

\* build_index.py 132-159: commit, the helper index, the summary, return 0.
BuildCommit ==
    /\ build.pc = "indexing"
    /\ build.todo = <<>>
    /\ userIdx' = [exists |-> TRUE, schema |-> TRUE,
                   icons |-> build.txn.icons, fts |-> build.txn.fts]
    /\ build' = Idle
    /\ last' = BuildReport(0, "ok", <<>>)
    /\ UNCHANGED <<cache, bundleIdx, bundleMeta, dataIdx, meta>>

\* The build process is interrupted from outside (KeyboardInterrupt is not
\* an Exception, a kill runs no handler): the open transaction is never
\* committed and SQLite rolls it back.
BuildAbort ==
    /\ build.pc \in {"cleared", "indexing", "hung"}
    /\ build' = Idle
    /\ last' = BuildReport(2, "interrupted", <<>>)
    /\ UNCHANGED <<cache, userIdx, bundleIdx, bundleMeta, dataIdx, meta>>

\* iconify_cli.py build_index (201-286), the build-index command. With
\* bundle it calls ensure_data_dir, a name the module does not define. Without,
\* it passes the early return, creates the tables, opens the transaction with
\* the DELETEs, writes index_meta.json and then reads the local collections
\* before anything is assigned to it: the exception leaves the command, the
\* connection is dropped uncommitted.
CliBuildIndex(force, bundle) ==
    /\ build.pc = "idle"
    /\ IF bundle
       THEN /\ last' = [NoOp EXCEPT !.op = "cli_build", !.force = force,
                                    !.before = userIdx, !.meta0 = meta,
                                    !.out = "NameError", !.rc = 1]
            /\ UNCHANGED <<userIdx, meta>>
       ELSE IF userIdx.exists /\ ~force
       THEN /\ last' = [NoOp EXCEPT !.op = "cli_build", !.force = force,
                                    !.before = userIdx, !.meta0 = meta,
                                    !.skipped = TRUE]
            /\ UNCHANGED <<userIdx, meta>>
       ELSE /\ userIdx' = [userIdx EXCEPT !.exists = TRUE, !.schema = TRUE]
            /\ meta' = [exists |-> TRUE, by |-> "iconify_cli", count |-> 0]
            /\ last' = [NoOp EXCEPT !.op = "cli_build", !.force = force,
                                    !.before = userIdx, !.meta0 = meta,
                                    !.out = "UnboundLocalError", !.rc = 1]
    /\ UNCHANGED <<cache, bundleIdx, bundleMeta, dataIdx, build>>

\* One http_get(url) call, as list-collections (load_collections 101) and
\* attribution (show_attribution 438) make it.
HttpGetCall(url, net, diskOk) ==
    /\ LET r == HttpGet(cache[url], net, diskOk)
       IN /\ cache' = [cache EXCEPT ![url] = r.cache]
          /\ last' = [NoOp EXCEPT !.op = "http_get", !.url = url,
                         !.pre = cache[url], !.why = net.why, !.diskOk = diskOk,
                         !.out = r.out, !.doc = r.doc, !.net = r.net]
    /\ UNCHANGED <<userIdx, bundleIdx, bundleMeta, dataIdx, meta, build>>

\* for icon_name, icon in icons.items() (build_index.py 99-123) on one
\* document whose icons stand in the given order, into empty tables.
IndexIconsCall(table, order) ==
    /\ build.pc = "idle"
    /\ LET ix == IndexIcons(PA, "MIT", table, order, EmptyTables)
       IN last' = [NoOp EXCEPT !.op = "index_icons", !.table = table,
                               !.order = order, !.rows = ix.tbl.icons,
                               !.out = IF ix.hang THEN "hang" ELSE "ok"]
    /\ UNCHANGED <<cache, userIdx, bundleIdx, bundleMeta, dataIdx, meta, build>>

\* ----------------------------------------------------------- Bundle updater

\* scripts/data before update_bundled_data.py ran: no icons.db, no
\* collections.json, no icons.zip.
NoData == [exists |-> FALSE, metadata |-> FALSE, zip |-> FALSE,
           icons |-> <<>>, fts |-> <<>>]

\* http_get of update_bundled_data.py (47-54): no cache; every failure of
\* the request or of the parse leaves as RuntimeError.
UpdateHttpGet(net) ==
    IF net.ok THEN [out |-> "ok", doc |-> net.v]
    ELSE [out |-> "RuntimeError", doc |-> 0]

\* The loop of build_index in update_bundled_data.py (92-131) over the
\* sorted prefixes still to do; netOf gives the answer of the service per
\* prefix. except Exception passes over the collection whatever was raised,
\* and the rows inserted before the exception stay in the transaction.
RECURSIVE UpdateLoop(_, _, _, _, _)
UpdateLoop(keys, netOf, tbl, errors, done) ==
    IF keys = <<>>
    THEN [tbl |-> tbl, errors |-> errors, done |-> done, hang |-> FALSE]
    ELSE LET p == Head(keys)
             r == UpdateHttpGet(netOf[p])
             ix == IndexCollection(p, r.doc, tbl)
         IN IF r.out # "ok"
            THEN UpdateLoop(Tail(keys), netOf, tbl,
                            Append(errors, <<p, r.out>>), done)
            ELSE IF ix.hang
            THEN [tbl |-> tbl, errors |-> errors, done |-> done, hang |-> TRUE]
            ELSE IF ix.exc # "none"
            THEN UpdateLoop(Tail(keys), netOf, ix.tbl,
                            Append(errors, <<p, ix.exc>>), done)
            ELSE UpdateLoop(Tail(keys), netOf, ix.tbl, errors,
                            Append(done, <<p, r.doc>>))

\* update_bundled_data.py main (228-278) without --verify: the collection
\* list, collections.json, the index (build_index 63-136: connect, CREATE,
\* DELETE, the loop, commit), the archive, verify_bundle. A walk that never
\* ends leaves the program in the loop, with the files written until then.
UpdateMain(filter, netList, netOf) ==
    /\ build.pc = "idle"
    /\ LET lc == UpdateHttpGet(netList)
           keys == SortedKeys(CatalogOf(lc.doc), filter)
           lp == UpdateLoop(keys, netOf, EmptyTables, <<>>, <<>>)
           rep == [NoOp EXCEPT !.op = "update", !.pfilter = filter]
       IN IF lc.out # "ok"
          THEN /\ last' = [rep EXCEPT !.out = lc.out, !.rc = 1]
               /\ UNCHANGED dataIdx
          ELSE IF lp.hang
          THEN /\ dataIdx' = [dataIdx EXCEPT !.exists = TRUE, !.metadata = TRUE]
               /\ last' = [rep EXCEPT !.out = "hang"]
          ELSE /\ dataIdx' = [exists |-> TRUE, metadata |-> TRUE, zip |-> TRUE,
                               icons |-> lp.tbl.icons, fts |-> lp.tbl.fts]
               /\ last' = [rep EXCEPT
                             !.errors = lp.errors, !.indexed = lp.done,
                             !.total = Len(lp.tbl.icons),
                             !.rc = IF Len(lp.tbl.icons) = 0 THEN 1 ELSE 0]
    /\ UNCHANGED <<cache, userIdx, bundleIdx, bundleMeta, meta, build>>

\* ------------------------------------------------------------- Query Engine

\* The characters FTS5 takes as part of a bareword and of a token; every
\* other character separates tokens (unicode61) and is a syntax error in an
\* unquoted query.
Alnum == {"a", "b", "c", "h", "o", "s", "u", "x", "z", "H", "A", "B", "C"}

\* The maximal runs of str without a character of seps, in order.
RECURSIVE SplitAcc(_, _, _, _)
SplitAcc(str, seps, cur, acc) ==
    IF str = <<>> THEN (IF cur = <<>> THEN acc ELSE Append(acc, cur))
    ELSE IF str[1] \in seps
    THEN SplitAcc(Tail(str), seps, <<>>, IF cur = <<>> THEN acc ELSE Append(acc, cur))
    ELSE SplitAcc(Tail(str), seps, Append(cur, str[1]), acc)

Split(str, seps) == SplitAcc(str, seps, <<>>, <<>>)

Chars(str) == {str[i] : i \in 1..Len(str)}

\* str.split()
Words(str) == Split(str, {" "})

\* The tokens the unicode61 tokenizer makes of a column value.
FtsTokens(str) == SeqToSet(Split(Lower(str), Chars(str) \ Alnum))

IsPrefix(t, w) == Len(t) <= Len(w) /\ SubSeq(w, 1, Len(t)) = t

\* q in s
IsSubstr(q, str) ==
    \E i \in 0..Len(str) : i + Len(q) <= Len(str) /\ SubSeq(str, i + 1, i + Len(q)) = q

\* icons_fts MATCH 't1*t2*...tn*': every term is the prefix of a token of
\* some column of the row.
RowTokens(row) ==
    FtsTokens(row.prefix) \cup FtsTokens(row.name) \cup FtsTokens(row.full_id)
        \cup FtsTokens(row.tokens)

FtsMatch(row, terms) ==
    \A k \in 1..Len(terms) : \E w \in RowTokens(row) : IsPrefix(Lower(terms[k]), w)

\* LIMIT ? of SQLite: a negative limit is no limit.
SqlLimit(n, limit) == IF limit < 0 THEN n ELSE IF limit < n THEN limit ELSE n

\* search_index (iconify_cli.py 179-198) on the token table fts: the rows
\* that match, in rowid order, and how many of them LIMIT keeps. "*" alone,
\* and a term with a character outside the barewords, do not parse.
SearchIndex(fts, query, limit, filter) ==
    LET terms == Words(query)
        hits == SelectSeq(fts, LAMBDA row :
                    FtsMatch(row, terms) /\ Keep(filter, row.prefix))
    IN IF terms = <<>> \/ \E k \in 1..Len(terms) : ~(Chars(terms[k]) \subseteq Alnum)
       THEN [out |-> "OperationalError", hits |-> <<>>, keep |-> 0]
       ELSE [out |-> "ok", hits |-> hits, keep |-> SqlLimit(Len(hits), limit)]

\* The elements of sq at the positions in idx, in order.
Pick(sq, idx) ==
    LET pos == SelectSeq([i \in 1..Len(sq) |-> i], LAMBDA i : i \in idx)
    IN [j \in 1..Len(pos) |-> sq[pos[j]]]

\* ORDER BY bm25 ... LIMIT: which rows rank best is left open, any keep of
\* the matching rows may be the ones returned.
Ranked(hits, keep) ==
    {Pick(hits, idx) : idx \in {J \in SUBSET (1..Len(hits)) : Cardinality(J) = keep}}

ResultOf(rows) == [i \in 1..Len(rows) |-> <<rows[i].prefix, rows[i].name>>]

\* results[:limit] of Python.
Slice(sq, limit) ==
    IF limit >= 0 THEN SubSeq(sq, 1, IF limit < Len(sq) THEN limit ELSE Len(sq))
    ELSE SubSeq(sq, 1, Len(sq) + limit)

\* The loop over icons.items() of the fallback (iconify_cli.py 165-171).
RECURSIVE ScanIcons(_, _, _, _, _, _)
ScanIcons(p, icons, names, q, limit, res) ==
    IF names = <<>> THEN res
    ELSE LET name == names[1]
             al == icons[name].aliases
             hit == \/ IsSubstr(q, Lower(name))
                    \/ \E k \in 1..Len(al) : IsSubstr(q, Lower(al[k]))
             res2 == IF hit THEN Append(res, <<p, name>>) ELSE res
         IN IF hit /\ Len(res2) >= limit THEN res2
            ELSE ScanIcons(p, icons, Tail(names), q, limit, res2)

\* The loop over the collections of the fallback (iconify_cli.py 159-173):
\* the result list, the cache afterwards and the collections get_prefix_json
\* was called for. Any exception of one collection
\* is passed over. net is what the network answers while the command runs.
RECURSIVE ScanCollections(_, _, _, _, _, _, _, _)
ScanCollections(keys, c, net, diskOk, q, limit, filter, res) ==
    IF keys = <<>> THEN [res |-> res, cache |-> c, fetched |-> <<>>]
    ELSE LET p == keys[1]
             u == PrefixUrl(p)
             r == HttpGet(c[u], net, diskOk)
             c2 == [c EXCEPT ![u] = r.cache]
             doc == CollectionDoc(p, r.doc)
             rest == IF r.out # "ok"
                     THEN ScanCollections(Tail(keys), c2, net, diskOk, q, limit,
                                          filter, res)
                     ELSE ScanCollections(Tail(keys), c2, net, diskOk, q, limit,
                                          filter,
                                          ScanIcons(p, doc.icons, doc.names, q,
                                                    limit, res))
         IN IF filter # {} /\ p \notin filter
            THEN ScanCollections(Tail(keys), c, net, diskOk, q, limit, filter, res)
            ELSE [rest EXCEPT !.fetched = <<p>> \o @]

\* A mutant: a bundled index file counts whether or not it has rows.
HasBundledIndexAnyFile(b) == b.st # "absent"

\* has_bundled_index (iconify_cli.py 104-116)
HasBundledIndex(b) == b.st = "ok" /\ Len(b.icons) > 0

\* The index source search_icons chooses (iconify_cli.py 139-147).
SelectSource(b, u) ==
    IF HasBundledIndex(b) THEN "bundle"
    ELSE IF u.exists THEN "cache"
    ELSE "scan"

BundleCatalog == CatalogOf(1)

SearchReport(query, limit, filter, src) ==
    [NoOp EXCEPT !.op = "search", !.query = query, !.limit = limit,
                 !.pfilter = filter, !.src = src]

\* search_icons on an index (iconify_cli.py 136-151).
SearchIndexed(query, limit, filter) ==
    /\ SelectSource(bundleIdx, userIdx) # "scan"
    /\ LET src == SelectSource(bundleIdx, userIdx)
           fts == IF src = "bundle" THEN bundleIdx.fts ELSE userIdx.fts
           r == IF src = "cache" /\ ~userIdx.schema
                THEN [out |-> "OperationalError", hits |-> <<>>, keep |-> 0]
                ELSE SearchIndex(fts, query, limit, filter)
       IN \E rows \in Ranked(r.hits, r.keep) :
              last' = [SearchReport(query, limit, filter, src) EXCEPT
                          !.out = r.out, !.res = ResultOf(rows)]
    /\ UNCHANGED <<cache, userIdx, bundleIdx, bundleMeta, dataIdx, meta, build>>

\* search_icons without an index (iconify_cli.py 153-176): the collections
\* from the bundled metadata or the network, then the scan.
SearchScan(query, limit, filter, net, diskOk) ==
    /\ SelectSource(bundleIdx, userIdx) = "scan"
    /\ LET lc == IF bundleMeta
                 THEN Ret("ok", 1, cache[COLLECTIONS_URL], FALSE)
                 ELSE HttpGet(cache[COLLECTIONS_URL], net, diskOk)
           c1 == [cache EXCEPT ![COLLECTIONS_URL] = lc.cache]
           keys == IF bundleMeta THEN BundleCatalog ELSE CatalogOf(lc.doc)
           sc == ScanCollections(keys, c1, net, diskOk, Lower(query), limit,
                                 filter, <<>>)
       IN IF lc.out # "ok"
          THEN /\ cache' = c1
               /\ last' = [SearchReport(query, limit, filter, "scan") EXCEPT
                              !.out = lc.out]
          ELSE /\ cache' = sc.cache
               /\ last' = [SearchReport(query, limit, filter, "scan") EXCEPT
                              !.res = Slice(sc.res, limit), !.found = sc.res,
                              !.fetched = sc.fetched]
    /\ UNCHANGED <<userIdx, bundleIdx, bundleMeta, dataIdx, meta, build>>

\* ----------------------------------------------------------------- SVG gate

\* The pieces the bodies given to sanitize_svg are put together from.
Fragments ==
    { <<"<">>,
      <<"s", "c", "r", "i", "p", "t">>,
      <<"S", "c", "R", "I", "P", "T">>,
      <<"o", "n", "l", "o", "a", "d", "=">>,
      <<"O", "N", "l", "o", "a", "d", "=">>,
      <<"o", "n", "l", "o", "a", "d">>,
      <<"h", "r", "e", "f", "=">>,
      <<"h", "R", "E", "F", " ", "=">>,
      <<"\"">>,
      <<"'">>,
      <<"h", "t", "t", "p">>,
      <<"H", "t", "t", "P">>,
      <<" ">> }

RECURSIVE Concat(_)
Concat(parts) == IF parts = <<>> THEN <<>> ELSE Head(parts) \o Concat(Tail(parts))

Bodies ==
    UNION { {Concat(parts) : parts \in [1..n -> Fragments]} : n \in 0..MaxFragments }

TagScript == <<"<", "s", "c", "r", "i", "p", "t">>
AttrOnload == <<"o", "n", "l", "o", "a", "d", "=">>
AttrHref == <<"h", "r", "e", "f", "=">>
SchemeHttp == <<"h", "t", "t", "p">>
Quotes == {"\"", "'"}

\* re.search(r'href=["\']http', text)
ReSearchHref(text) ==
    \E i \in 0..Len(text) :
        /\ i + 10 <= Len(text)
        /\ SubSeq(text, i + 1, i + 5) = AttrHref
        /\ text[i + 6] \in Quotes
        /\ SubSeq(text, i + 7, i + 10) = SchemeHttp

\* sanitize_svg (iconify_cli.py 308-317)
SanitizeSvg(body) ==
    LET body_lower == Lower(body)
    IN /\ ~IsSubstr(TagScript, body_lower)
       /\ ~IsSubstr(AttrOnload, body_lower)
       /\ ~ReSearchHref(body_lower)

\* ----------------------------------------------------------------- Renderer

\* The collection the get command is tried on besides those of the catalog.
PG == <<"g">>
GS == <<"s">>
GK == <<"k">>
GKK == <<"k", "k">>
GD == <<"d">>
GQ == <<"q">>
GE == <<"e">>
GN == <<"n">>
GJ == <<"j">>
GR == <<"r">>
GH == <<"h">>
GW == <<"w">>

BPath == <<"<", "p", "/", ">">>
BOwn == <<"<", "o", "/", ">">>
BScript == <<"<", "S", "c", "r", "i", "p", "t", ">">>
BLinkSpaced == <<"<", "a", " ", "h", "r", "e", "f", " ", "=", " ", "\"", "h", "t", "t", "p", ":", "x", "\"", "/", ">">>
BLink == <<"<", "a", " ", "h", "R", "e", "f", "=", "'", "H", "T", "T", "P", ":", "x", "'", "/", ">">>

\* An entry of data["icons"] as get_svg reads it: optional body, optional
\* width and height, optional parent.
RenderEntry(hasBody, body, hasDims, width, height, parent) ==
    [hasBody |-> hasBody, body |-> body, hasDims |-> hasDims,
     width |-> width, height |-> height, parent |-> parent]

\* data["icons"] of the document version v of collection p. In g: s is
\* drawn 2 by 3; k has a body of its own and the parent s; kk has the parent
\* k; d has the parent q, which the table lacks; e has an empty body; n has
\* no body; j holds a script element, r has the parent j; h and w link
\* outside, w with blanks around the equals sign.
\* An icon of a catalog collection has a body unless it has a parent.
RenderTable(p, v) ==
    IF p = PG
    THEN ( GS :> RenderEntry(TRUE, BPath, TRUE, 2, 3, NoParent)
        @@ GK :> RenderEntry(TRUE, BOwn, FALSE, 0, 0, GS)
        @@ GKK :> RenderEntry(FALSE, <<>>, FALSE, 0, 0, GK)
        @@ GD :> RenderEntry(TRUE, BOwn, FALSE, 0, 0, GQ)
        @@ GE :> RenderEntry(TRUE, <<>>, FALSE, 0, 0, NoParent)
        @@ GN :> RenderEntry(FALSE, <<>>, TRUE, 2, 3, NoParent)
        @@ GJ :> RenderEntry(TRUE, BScript, FALSE, 0, 0, NoParent)
        @@ GR :> RenderEntry(TRUE, BOwn, FALSE, 0, 0, GJ)
        @@ GH :> RenderEntry(TRUE, BLink, FALSE, 0, 0, NoParent)
        @@ GW :> RenderEntry(TRUE, BLinkSpaced, FALSE, 0, 0, NoParent) )
    ELSE LET doc == CollectionDoc(p, v)
         IN [n \in SeqToSet(doc.names) |->
                RenderEntry(doc.icons[n].parent = NoParent, BPath, FALSE, 0, 0,
                            doc.icons[n].parent)]

\* The collections the remote has a document for.
Served == AllPrefixes \cup {PG}

\* str.split(":", 1) of a string that holds a colon.
SplitOnce(str) ==
    LET i == CHOOSE k \in 1..Len(str) :
                 str[k] = ":" /\ \A j \in 1..(k - 1) : str[j] # ":"
    IN <<SubSeq(str, 1, i - 1), SubSeq(str, i + 1, Len(str))>>

\* A mutant: the entry of the name itself is returned, its parent not followed.
ResolveAliasesNoWalk(table, name, steps) ==
    IF name \notin DOMAIN table THEN [st |-> "empty", name |-> name]
    ELSE [st |-> "entry", name |-> name]

\* resolve_aliases (iconify_cli.py 296-305) on the icon table: the name of
\* the entry it returns, or that it returns {} (a name the table lacks), or
\* that it does not return (steps counts the iterations; more than the table
\* has names means the walk is on a cycle).
RECURSIVE ResolveAliases(_, _, _)
ResolveAliases(table, name, steps) ==
    IF name \notin DOMAIN table THEN [st |-> "empty", name |-> name]
    ELSE IF table[name].parent = NoParent THEN [st |-> "entry", name |-> name]
    ELSE IF steps > Cardinality(DOMAIN table) THEN [st |-> "hang", name |-> name]
    ELSE ResolveAliases(table, table[name].parent, steps + 1)

NoColor == "none"
NoSvg == <<>>

\* The SVG text get_svg prints (iconify_cli.py 356-376), by its parts: the
\* viewBox, the width and height attributes, the fill group if any, the body.
Svg(entry, size, color) ==
    << [viewW |-> IF entry.hasDims THEN entry.width ELSE size,
        viewH |-> IF entry.hasDims THEN entry.height ELSE size,
        size |-> size,
        fill |-> IF color # NoColor /\ color # "currentColor" THEN color ELSE NoColor,
        body |-> entry.body] >>

\* get_svg from the entry resolve_aliases returned (iconify_cli.py 346-379).
GetSvgBody(entry, size, color) ==
    IF ~entry.hasBody \/ entry.body = <<>>
    THEN [out |-> "empty_body", safe |-> TRUE, svg |-> NoSvg]
    ELSE IF ~SanitizeSvg(entry.body)
    THEN [out |-> "unsafe", safe |-> FALSE, svg |-> NoSvg]
    ELSE [out |-> "svg", safe |-> TRUE, svg |-> Svg(entry, size, color)]

\* The get command (get_svg, iconify_cli.py 320-386, under main 550-569).
\* A bare prefix is looked up in the user index, which sqlite3.connect
\* creates as an empty file when it is missing. An exception leaves through
\* main with exit status 1; every return of get_svg is exit status 0.
GetSvg(arg, size, color, net, diskOk) ==
    LET bare == ":" \notin Chars(arg)
        rows == SelectSeq(userIdx.icons, LAMBDA row : row.prefix = arg)
        id == IF bare THEN rows[1].full_id ELSE arg
        p == SplitOnce(id)[1]
        name == SplitOnce(id)[2]
        u == PrefixUrl(p)
        r == IF p \in Served THEN HttpGet(cache[u], net, diskOk)
             ELSE Ret("RuntimeError", 0, Absent, TRUE)
        table == RenderTable(p, r.doc)
        found == ResolveAliases(table, name, 0)
        b == GetSvgBody(table[found.name], size, color)
        rep == [NoOp EXCEPT !.op = "get", !.arg = arg, !.size = size,
                            !.color = color]
    IN /\ build.pc = "idle"
       /\ userIdx' = IF bare THEN [userIdx EXCEPT !.exists = TRUE] ELSE userIdx
       /\ IF bare /\ ~userIdx.schema
          THEN /\ last' = [rep EXCEPT !.out = "OperationalError", !.rc = 1]
               /\ UNCHANGED cache
          ELSE IF bare /\ rows = <<>>
          THEN /\ last' = [rep EXCEPT !.out = "unknown_prefix"]
               /\ UNCHANGED cache
          ELSE /\ cache' = IF p \in Served THEN [cache EXCEPT ![u] = r.cache]
                           ELSE cache
               /\ last' =
                    IF r.out # "ok"
                    THEN [rep EXCEPT !.out = r.out, !.rc = 1, !.url = u]
                    ELSE IF found.st = "hang"
                    THEN [rep EXCEPT !.out = "hang", !.rc = 2, !.url = u,
                                     !.doc = r.doc, !.name = name]
                    ELSE IF found.st = "empty"
                    THEN [rep EXCEPT !.out = "not_found", !.url = u,
                                     !.doc = r.doc, !.name = name]
                    ELSE [rep EXCEPT !.out = b.out, !.url = u, !.doc = r.doc,
                                     !.name = name, !.safe = b.safe,
                                     !.body = table[found.name].body,
                                     !.svg = b.svg]
       /\ UNCHANGED <<bundleIdx, bundleMeta, dataIdx, meta, build>>

\* sanitize_svg called on a body, as the tests call it
\* (tests/test_iconify.py 16-37).
SanitizeCall(body) ==
    /\ build.pc = "idle"
    /\ last' = [NoOp EXCEPT !.op = "sanitize", !.body = body,
                            !.safe = SanitizeSvg(body)]
    /\ UNCHANGED <<cache, userIdx, bundleIdx, bundleMeta, dataIdx, meta, build>>

\* ------------------------------------------------------------ the system

\* The bundle as shipped: no index file, a file SQLite cannot read, an index
\* with empty tables, or the index of collections a and b.
BundleFull ==
    IndexCollection(PB, 1, IndexCollection(PA, 1, EmptyTables).tbl).tbl

NoBundle == [st |-> "absent", icons |-> <<>>, fts |-> <<>>]

BundleStates ==
    { NoBundle,
      [st |-> "corrupt", icons |-> <<>>, fts |-> <<>>],
      [st |-> "ok", icons |-> <<>>, fts |-> <<>>],
      [st |-> "ok", icons |-> BundleFull.icons, fts |-> BundleFull.fts] }

Queries == { <<"h">>, <<"H", "o">>, <<"x", " ", "h">>, <<>>, <<" ">> }
Limits == (0 - MaxNegLimit)..MaxLimit

\* What the network gives the requests of one search or of one build step.
ScanNet == {NetFail("connError")} \cup {NetOk(v) : v \in Versions}

\* The report of the step just taken is read and dropped (the command
\* prints and returns, main 550-569); the next step starts from there.
Settle ==
    /\ last # NoOp
    /\ last' = NoOp
    /\ UNCHANGED <<cache, userIdx, bundleIdx, bundleMeta, dataIdx, meta, build, walk>>

Ready == last = NoOp /\ UNCHANGED walk

\* The query of the search that runs beside the builds.
ProbeQuery == <<"h">>

Init ==
    /\ cache = [u \in Urls |-> Absent]
    /\ userIdx = NoIndex
    /\ bundleIdx = NoBundle
    /\ bundleMeta = FALSE
    /\ dataIdx = NoData
    /\ meta = NoMeta
    /\ build = Idle
    /\ walk = NoWalk
    /\ last = NoOp

\* An installation without a bundle. The commands that fetch and build run
\* one at a time, a build to its end or to its interruption; a search may
\* run at any moment, also while a build is under way.
Next ==
    \/ Settle
    \/ Ready /\ build.pc = "idle"
             /\ \E u \in Urls, net \in NetOutcomes, diskOk \in BOOLEAN :
                    HttpGetCall(u, net, diskOk)
    \/ Ready /\ \E force \in BOOLEAN, filter \in Filters : BuildBegin(force, filter)
    \/ Ready /\ \E net \in NetOutcomes, diskOk \in BOOLEAN :
           BuildFetchCollections(net, diskOk)
    \/ Ready /\ \E net \in NetOutcomes, diskOk \in BOOLEAN :
           BuildIndexCollection(net, diskOk)
    \/ Ready /\ BuildCommit
    \/ Ready /\ BuildAbort
    \/ Ready /\ \E force \in BOOLEAN, bundle \in BOOLEAN : CliBuildIndex(force, bundle)
    \/ Ready /\ SearchIndexed(ProbeQuery, MaxLimit, {})

Spec == Init /\ [][Next]_vars

\* Every shipped bundle, every search, and forced full builds of the user
\* index in between.
InitSearch ==
    /\ cache = [u \in Urls |-> Absent]
    /\ userIdx = NoIndex
    /\ bundleIdx \in BundleStates
    /\ bundleMeta \in BOOLEAN
    /\ dataIdx = NoData
    /\ meta = NoMeta
    /\ build = Idle
    /\ walk = NoWalk
    /\ last = NoOp

NextSearch ==
    \/ Settle
    \/ Ready /\ build.pc = "idle"
             /\ \E query \in Queries, limit \in Limits, filter \in Filters :
                    SearchIndexed(query, limit, filter)
    \/ Ready /\ build.pc = "idle"
             /\ \E query \in Queries, limit \in Limits, filter \in Filters,
                   net \in ScanNet, diskOk \in BOOLEAN :
                    SearchScan(query, limit, filter, net, diskOk)
    \/ Ready /\ BuildBegin(TRUE, {})
    \/ Ready /\ \E net \in ScanNet : BuildFetchCollections(net, TRUE)
    \/ Ready /\ \E net \in ScanNet : BuildIndexCollection(net, TRUE)
    \/ Ready /\ BuildCommit

SpecSearch == InitSearch /\ [][NextSearch]_vars

\* The two parent walks alone, on every table of WalkTables. A loop that can
\* take its next iteration takes it, and a loop that is over returns: the
\* interpreter keeps running the one thread there is.
InitWalk == Init

NextWalk ==
    \/ \E table \in WalkTables, name \in WalkNames : ResolveBegin(table, name)
    \/ ResolveStep
    \/ ResolveReturn
    \/ \E table \in WalkTables, name \in WalkNames : FlattenBegin(table, name)
    \/ FlattenStep
    \/ FlattenReturn
    \/ WalkEnd

SpecWalk ==
    /\ InitWalk
    /\ [][NextWalk]_vars
    /\ WF_vars(ResolveStep) /\ WF_vars(ResolveReturn)
    /\ WF_vars(FlattenStep) /\ WF_vars(FlattenReturn)

\* The get command and the safety gate. The user index the bare prefixes
\* are looked up in is built, forced, while the network serves version 1.
GetArgs ==
    { PG \o <<":">> \o n : n \in {GS, GK, GKK, GD, GE, GN, GJ, GR, GH, GW, GQ} }
        \cup { PC \o <<":">> \o NUser, PZ \o <<":">> \o NUser, PA, PZ }
GetSizes == {24, 16}
GetColors == {NoColor, "currentColor", "red"}

InitGet ==
    /\ cache = [u \in Urls \cup {PrefixUrl(PG)} |-> Absent]
    /\ userIdx = NoIndex
    /\ bundleIdx = NoBundle
    /\ bundleMeta = FALSE
    /\ dataIdx = NoData
    /\ meta = NoMeta
    /\ build = Idle
    /\ walk = NoWalk
    /\ last = NoOp

NextGet ==
    \/ Settle
    \/ Ready /\ \E arg \in GetArgs, size \in GetSizes, color \in GetColors,
                   net \in ScanNet, diskOk \in BOOLEAN :
                    GetSvg(arg, size, color, net, diskOk)
    \/ Ready /\ \E body \in Bodies : SanitizeCall(body)
    \/ Ready /\ BuildBegin(TRUE, {})
    \/ Ready /\ BuildFetchCollections(NetOk(1), TRUE)
    \/ Ready /\ BuildIndexCollection(NetOk(1), TRUE)
    \/ Ready /\ BuildCommit

SpecGet == InitGet /\ [][NextGet]_vars

\* The remote serves sound documents or faulty ones; forced builds of the
\* user index over every prefix filter, and runs of the bundle updater.
FaultyNet == {NetOk(1), NetOk(BadVersion)}
UpdateNet == FaultyNet \cup {NetFail("connError")}

NextFaulty ==
    \/ Settle
    \/ Ready /\ \E filter \in Filters : BuildBegin(TRUE, filter)
    \/ Ready /\ \E net \in FaultyNet : BuildFetchCollections(net, TRUE)
    \/ Ready /\ \E net \in FaultyNet : BuildIndexCollection(net, TRUE)
    \/ Ready /\ BuildCommit
    \/ Ready /\ \E filter \in Filters, netList \in UpdateNet,
                   netOf \in [AllPrefixes -> UpdateNet] :
                    UpdateMain(filter, netList, netOf)

SpecFaulty == Init /\ [][NextFaulty]_vars

\* The loop over the icons of one document, for every table and order.
NextOrder ==
    \/ Settle
    \/ Ready /\ \E table \in OrderTables, order \in Orders :
                    IndexIconsCall(table, order)

SpecOrder == Init /\ [][NextOrder]_vars

\* ------------------------------------------------------------------ Claims

\* C1: http_get fails with its fetch error only when the network retrieval
\* fails and the URL has no cache entry; in every other combination of network
\* outcome and cache state it returns a JSON document and raises no other
\* error. Stated for calls whose cache write, if any, succeeds.
C1_FetchErrorOnlyWithoutCache ==
    (last.op = "http_get" /\ last.diskOk) =>
        /\ last.out = "RuntimeError" => (last.why # "ok" /\ last.pre.st = "absent")
        /\ ~(last.why # "ok" /\ last.pre.st = "absent") => last.out = "ok"

\* C2: when the network request inside http_get fails and a cache file exists
\* for the URL, whatever wrote it (a failed write included), http_get returns
\* the cached document.
C2_CacheFileServedOnNetworkFailure ==
    (last.op = "http_get" /\ last.net /\ last.why # "ok" /\ last.pre.st # "absent")
        => last.out = "ok"

\* C3: once http_get has returned a document from the network, the cache holds
\* that document; no step of any operation changes or removes a valid cache
\* entry; and a call on a URL with a valid entry returns the cached document
\* without a network request, whatever the network would have answered.
C3_CachedDocumentFinal ==
    [][ /\ \A u \in Urls : cache[u].st = "valid" => cache'[u] = cache[u]
        /\ (last'.op = "http_get" /\ last'.out = "ok")
               => cache'[last'.url] = Valid(last'.doc)
        /\ (last'.op = "http_get" /\ last'.pre.st = "valid")
               => (last'.out = "ok" /\ last'.doc = last'.pre.v /\ ~last'.net)
      ]_vars

\* A call on a cached URL while the network is down: served from the cache.
C3_Witness ==
    /\ last.op = "http_get"
    /\ last.pre.st = "valid"
    /\ last.why = "connError"
    /\ last.out = "ok"
    /\ last.doc = 1

\* C4: in build_index.py, when the fetch of one collection's document fails,
\* the build records exactly one (prefix, error) entry for it, goes on to the
\* remaining collections, commits and returns success.
C4_FetchFailureRecordedAndPassed ==
    \A p \in AllPrefixes :
        (last.op = "build" /\ last.url = PrefixUrl(p) /\ last.out = "RuntimeError")
            => /\ last.rc = 0
               /\ Len(SelectSeq(last.errors, LAMBDA e : e[1] = p)) = 1

Triple(row) == <<row.prefix, row.name, row.full_id>>

\* C5: in the committed index every fullId is in exactly one row of the record
\* table and exactly one row of the token table, the two rows agree on prefix,
\* name and fullId, no token row is without its record row, and the two tables
\* have the same number of rows; after a build that committed, the rows are
\* the rows of that build and of no earlier one.
C5_TablesPaired ==
    LET ic == userIdx.icons
        ft == userIdx.fts
    IN /\ Len(ic) = Len(ft)
       /\ \A i \in DOMAIN ic :
            /\ Cardinality({j \in DOMAIN ic : ic[j].full_id = ic[i].full_id}) = 1
            /\ Cardinality({j \in DOMAIN ft : ft[j].full_id = ic[i].full_id}) = 1
            /\ \E j \in DOMAIN ft : Triple(ft[j]) = Triple(ic[i])
       /\ \A j \in DOMAIN ft : \E i \in DOMAIN ic : Triple(ic[i]) = Triple(ft[j])
       /\ (last.op = "build" /\ last.rc = 0 /\ ~last.skipped)
             => /\ Len(ic) = last.total
                /\ \A i \in DOMAIN ic : Keep(last.pfilter, ic[i].prefix)

\* A forced rebuild restricted to one collection has committed over an index,
\* and the index holds that collection's rows.
C5_Witness ==
    /\ last.op = "build"
    /\ last.rc = 0
    /\ last.force
    /\ last.pfilter = {PA}
    /\ Len(userIdx.icons) > 0
    /\ Len(userIdx.icons) = Len(userIdx.fts)

\* C6: a search that runs while a build is under way sees the index as it was
\* before the build began (or, at its end, the new one): the committed index
\* during a build is the index the build found, the first build of a fresh
\* index file included.
C6_SearchSeesOldOrNew ==
    (last.op = "search" /\ last.src = "cache" /\ build.pc # "idle")
        => userIdx = build.before

HasData(idx) == idx.exists /\ Len(idx.icons) > 0

\* C7: a build asked for with force false on an index that already holds data
\* deletes nothing, inserts nothing and fetches nothing: the index tables,
\* the index metadata and the HTTP cache are as before, and no build is left
\* running.
C7_NoForceLeavesAllUnchanged ==
    [][ ( /\ HasData(userIdx)
          /\ build.pc = "idle"
          /\ last.op = "none"
          /\ last'.op \in {"build", "build_begin", "cli_build"}
          /\ ~last'.force )
        => ( /\ userIdx' = userIdx
             /\ meta' = meta
             /\ cache' = cache
             /\ build' = build )
      ]_vars

\* build_index.py has taken its early return on an index with rows.
C7_Witness ==
    /\ last.op = "build"
    /\ last.skipped
    /\ ~last.force
    /\ HasData(userIdx)

\* C8: resolve_aliases and the alias flattening of the build terminate on
\* every icon table, a table whose parent references form a cycle included:
\* a walk that has begun comes to its end.
C8_WalkTerminates ==
    (walk.pc \in {"resolve", "flatten"}) ~> (walk.pc = "done")

\* C9: a search takes the bundled index when its file exists and its record
\* table has at least one row; otherwise the user cache index when its file
\* exists; and scans the collections only when it can take neither.
C9_SourcePriority ==
    last.op = "search" =>
        LET bundled == bundleIdx.st = "ok" /\ Len(bundleIdx.icons) >= 1
        IN /\ last.src = "bundle" <=> bundled
           /\ last.src = "cache" <=> (~bundled /\ userIdx.exists)
           /\ last.src = "scan" <=> (~bundled /\ ~userIdx.exists)

\* A bundled index file with an empty record table is passed over for the
\* user cache index.
C9_Witness ==
    /\ last.op = "search"
    /\ bundleIdx.st = "ok"
    /\ Len(bundleIdx.icons) = 0
    /\ userIdx.exists
    /\ last.src = "cache"

\* C10: a search that returns returns at most limit results, whatever the
\* query, the limit and the source; with limit <= 0 it returns none.
C10_AtMostLimitResults ==
    (last.op = "search" /\ last.out = "ok")
        => Len(last.res) <= (IF last.limit > 0 THEN last.limit ELSE 0)

\* C11: a search whose query is empty or only whitespace is rejected as an
\* invalid query and yields no results, with an index and without.
C11_EmptyQueryRejected ==
    (last.op = "search" /\ Words(last.query) = <<>>)
        => (last.out # "ok" /\ last.res = <<>>)

FetchErrors == {"RuntimeError", "JSONDecodeError", "OSError"}

Blank(text, from, to) == \A k \in from..to : text[k] = " "

\* text holds an href attribute (name, equals sign with or without blanks
\* around it, quoted value) whose value starts with http.
HrefExternal(text) ==
    \E i \in 0..Len(text), j \in 1..Len(text), k \in 1..Len(text) :
        /\ i + 4 < j /\ j < k /\ k + 4 <= Len(text)
        /\ SubSeq(text, i + 1, i + 4) = <<"h", "r", "e", "f">>
        /\ Blank(text, i + 5, j - 1)
        /\ text[j] = "="
        /\ Blank(text, j + 1, k - 1)
        /\ text[k] \in Quotes
        /\ SubSeq(text, k + 1, k + 4) = SchemeHttp

UnsafeBody(body) ==
    \/ IsSubstr(TagScript, Lower(body))
    \/ IsSubstr(AttrOnload, Lower(body))
    \/ HrefExternal(Lower(body))

\* C13: sanitize_svg returns False exactly for the bodies that hold, in any
\* letter case, a <script opening tag, an onload= attribute or an href
\* attribute whose quoted value starts with http; and get_svg prints no SVG
\* for an icon whose resolved body is one of them, but the unsafe-content
\* message.
C13_UnsafeBodiesRejected ==
    /\ last.op = "sanitize" => (last.safe <=> ~UnsafeBody(last.body))
    /\ (last.op = "get" /\ UnsafeBody(last.body))
           => (last.svg = NoSvg /\ last.out = "unsafe")

Failures == {"unknown_prefix", "not_found", "empty_body", "unsafe"}
    \cup FetchErrors \cup {"OperationalError"}

\* C14: a command exits with status 0 only when it succeeded: a get that
\* ends with the icon not found, an empty body, an unsafe body, an unknown
\* prefix or a failed fetch exits with a non-zero status and prints no SVG.
C14_FailuresExitNonZero ==
    (last.op = "get" /\ last.out \in Failures)
        => (last.rc # 0 /\ last.svg = NoSvg)

\* C15: the build-index command of the CLI, run when no index file exists or
\* with force, loads the collections, inserts the rows, commits and reports
\* the number indexed, with bundle true and false: whenever it does not take
\* its early return it ends without error.
C15_CliBuildIndexBuilds ==
    (last.op = "cli_build" /\ ~last.skipped)
        => (last.rc = 0 /\ last.out = "ok")

\* C16: build_index.py skips its work only when the index already holds data
\* (and force is false): an index file without records, as a failed or
\* aborted build leaves it, is cleared and filled again.
C16_SkipOnlyWithData ==
    (last.op = "build" /\ last.skipped) => HasData(userIdx)

\* C17: a build over a collection in which an icon's parent chain is cyclic
\* completes: it is never caught in the parent walk of an icon.
C17_CyclicBuildCompletes ==
    build.pc # "hung"

\* The names above name in its parent chain, at most n steps up.
RECURSIVE Ancestors(_, _, _)
Ancestors(parentOf, name, n) ==
    IF n = 0 \/ name \notin DOMAIN parentOf \/ parentOf[name] = NoParent THEN {}
    ELSE {parentOf[name]} \cup Ancestors(parentOf, parentOf[name], n - 1)

ParentsIn(table) == [n \in DOMAIN table |-> table[n].parent]

AllAncestors(table, name) ==
    Ancestors(ParentsIn(table), name, Cardinality(DOMAIN table) + 1)

Acyclic(table) == \A n \in DOMAIN table : n \notin AllAncestors(table, n)

\* The union of the own alias sets of name and of its ancestors.
ChainAliases(table, name) ==
    SeqToSet(table[name].aliases)
        \cup UNION { SeqToSet(OwnAliases(table, a)) : a \in AllAncestors(table, name) }

RowsOf(rows, p) == SelectSeq(rows, LAMBDA row : row.prefix = p)

\* C18: the aliases the build stores for an icon of an acyclic table are the
\* icon's own aliases and the own aliases of all its ancestors, and nothing
\* else (its own alone when it has no parent), and the token field of its
\* token row is the name followed by those aliases: the rows of every
\* collection in the committed index are those of one version of its
\* document, in document order.
C18_AliasesAreChainUnion ==
    \A p \in AllPrefixes :
        RowsOf(userIdx.icons, p) # <<>> =>
            \E v \in Versions :
                LET doc == CollectionDoc(p, v)
                    ic == RowsOf(userIdx.icons, p)
                    ft == RowsOf(userIdx.fts, p)
                IN /\ Acyclic(doc.icons)
                   /\ [i \in 1..Len(ic) |-> ic[i].name] = doc.names
                   /\ [i \in 1..Len(ft) |-> ft[i].name] = doc.names
                   /\ \A i \in 1..Len(ic) :
                        /\ SeqToSet(Words(ic[i].aliases))
                               = ChainAliases(doc.icons, ic[i].name)
                        /\ Head(Words(ft[i].tokens)) = ic[i].name
                        /\ SeqToSet(Tail(Words(ft[i].tokens)))
                               = ChainAliases(doc.icons, ic[i].name)

\* The index holds icon u of collection a with its own alias and the alias
\* of its grandparent ho, reached through ho-x, which has none.
C18_Witness ==
    \E i \in 1..Len(userIdx.icons) :
        /\ userIdx.icons[i].full_id = FullId(PA, NUser)
        /\ SeqToSet(Words(userIdx.icons[i].aliases)) = {NExtra, NHouse}

\* C19: on an acyclic icon table the get command renders the body and the
\* dimensions of the entry at the end of the parent chain of the name asked
\* for (the entry without a parent); when the name or a parent on the chain
\* is missing from the table it reports the icon as not found and prints no
\* SVG.
C19_TerminalEntryRendered ==
    \A p \in Served :
        (last.op = "get" /\ last.url = PrefixUrl(p) /\ last.out \notin FetchErrors
                /\ Acyclic(RenderTable(p, last.doc)))
        => LET table == RenderTable(p, last.doc)
               chain == {last.name} \cup AllAncestors(table, last.name)
               ends == {n \in chain \cap DOMAIN table : table[n].parent = NoParent}
           IN IF \E n \in chain : n \notin DOMAIN table
              THEN last.out = "not_found" /\ last.svg = NoSvg
              ELSE /\ Cardinality(ends) = 1
                   /\ \A t \in ends :
                        /\ last.body = table[t].body
                        /\ last.out \in {"svg", "empty_body", "unsafe"}
                        /\ last.out = "svg" <=>
                              (table[t].hasBody /\ table[t].body # <<>>
                                 /\ SanitizeSvg(table[t].body))
                        /\ last.out = "svg" =>
                              /\ Len(last.svg) = 1
                              /\ last.svg[1].body = table[t].body
                              /\ last.svg[1].viewW =
                                   (IF table[t].hasDims THEN table[t].width ELSE last.size)
                              /\ last.svg[1].viewH =
                                   (IF table[t].hasDims THEN table[t].height ELSE last.size)
                        /\ last.out # "svg" => last.svg = NoSvg

\* get g:kk, two parents below s, has printed the body of s in the
\* dimensions of s.
C19_Witness ==
    /\ last.op = "get"
    /\ last.name = GKK
    /\ last.out = "svg"
    /\ last.svg[1].body = BPath
    /\ last.svg[1].viewW = 2
    /\ last.svg[1].viewH = 3

\* C20: the scan stops as soon as limit matches are found: it collects no
\* match beyond the limit, and the collection in which the last match was
\* found is the last collection it fetches.
C20_ScanStopsAtLimit ==
    (last.op = "search" /\ last.src = "scan" /\ last.out = "ok"
            /\ last.limit >= 1 /\ Len(last.found) >= last.limit)
        => /\ Len(last.found) = last.limit
           /\ last.fetched[Len(last.fetched)] = last.found[Len(last.found)][1]

\* C21: during a build, a collection document that parses but has no "icons"
\* field is recorded as an error of that collection and is not counted as a
\* collection indexed successfully with zero icons.
C21_MissingIconsIsError ==
    last.op = "build" =>
        \A i \in 1..Len(last.indexed) :
            LET p == last.indexed[i][1]
                v == last.indexed[i][2]
            IN HasIconsField(p, v)

\* C22: when a build fails as a whole (build_index returns 1), the index a
\* later search sees is exactly the one from before the build: its rows are
\* those from before, and where there was no index there is none, not an
\* index that exists and is empty.
C22_FailedBuildRestoresIndex ==
    (last.op = "build" /\ last.rc = 1) => userIdx = last.before

\* The alias set stored in rows for the icon name.
StoredAliases(rows, name) ==
    UNION { SeqToSet(Words(rows[i].aliases)) :
                i \in {j \in 1..Len(rows) : rows[j].name = name} }

\* C23: the build merges the aliases of the ancestors into the own alias
\* mapping of each icon in place; all the same, on an acyclic table the
\* alias set stored for every icon is the same in every order in which the
\* icons are visited: what was merged into an icon visited earlier neither
\* adds an alias to, nor takes one from, the set of an icon visited later.
C23_AliasSetsOrderIndependent ==
    (last.op = "index_icons" /\ Acyclic(last.table)) =>
        /\ last.out = "ok"
        /\ \A order \in Orders :
              LET other == IndexIcons(PA, "MIT", last.table, order, EmptyTables)
              IN \A n \in WalkNames :
                    StoredAliases(other.tbl.icons, n) = StoredAliases(last.rows, n)

\* The chain C -> B -> A, every icon with an alias of its own, visited with B
\* first: the mapping of B held the alias of A when C was visited, and the
\* set stored for C is that of the three.
C23_Witness ==
    /\ last.op = "index_icons"
    /\ last.order = <<NB, NC, NA>>
    /\ last.table[NC].parent = NB
    /\ last.table[NB].parent = NA
    /\ last.table[NA].parent = NoParent
    /\ \A n \in WalkNames : last.table[n].aliases = <<Lower(n)>>
    /\ StoredAliases(last.rows, NB) = {Lower(NA), Lower(NB)}
    /\ StoredAliases(last.rows, NC) = {Lower(NA), Lower(NB), Lower(NC)}

\* C24: after any sequence of builds, also of builds that fail after they
\* started, the persisted metadata describes the build that produced the
\* committed index: a build that ends without committing leaves the
\* metadata as it found it.
C24_MetadataFollowsCommit ==
    (last.op \in {"build", "cli_build"} /\ last.rc # 0) => meta = last.meta0

\* C25: a collection whose indexing is reported as failed contributes no
\* row to the committed index, also when the error came after some of its
\* icons were inserted: every collection is fully indexed or absent.
C25_FailedCollectionHasNoRows ==
    /\ (last.op = "update" /\ last.out = "ok") =>
          \A i \in 1..Len(last.errors) :
              /\ RowsOf(dataIdx.icons, last.errors[i][1]) = <<>>
              /\ RowsOf(dataIdx.fts, last.errors[i][1]) = <<>>
    /\ (last.op = "build" /\ last.rc = 0 /\ ~last.skipped) =>
          \A i \in 1..Len(last.errors) :
              /\ RowsOf(userIdx.icons, last.errors[i][1]) = <<>>
              /\ RowsOf(userIdx.fts, last.errors[i][1]) = <<>>

=============================================================================
